---- MODULE Spec2Model ----
(***************************************************************************)
(* Tag schema executors of the graph layer                                 *)
(* (src/graph/executor/maintain/TagExecutor.cpp).                          *)
(*                                                                         *)
(* Every executor's execute() reads its plan node and the session, calls   *)
(* one MetaClient operation, and attaches to the returned future           *)
(*   .via(runner()).thenValue(lambda)                                      *)
(*   .thenError(tag_t<std::bad_alloc>, h1).thenError(tag_t<std::exception>,*)
(*   h2).                                                                  *)
(* The model follows one invocation through: the execute() call, the       *)
(* resolution of the MetaClient future, the lambda (its check of the       *)
(* response, its body, finish()), and the two error handlers.              *)
(***************************************************************************)
EXTENDS Integers, Sequences, FiniteSets, TLC

(***************************************************************************)
(* Bounds of the model.                                                    *)
(***************************************************************************)
MaxNameLen == 2   \* longest tag name
MaxTags    == 3   \* longest list of TagItems the MetaClient returns
MaxItems   == 2   \* longest list of alter items of an AlterTag node

\* The characters of names, as unsigned byte values.
Chars == {1, 2}

\* The invocations of execute() the model follows.
Cmds == {1, 2}
\* The invocations that run under Spec.
Solo == {1}

Spaces == {1, 2}

SeqsUpTo(S, n) == UNION {[1..k -> S] : k \in 0..n}

\* std::string values: sequences of characters, compared as unsigned bytes.
Names == SeqsUpTo(Chars, MaxNameLen) \ {<<>>}
\* Names the plan nodes refer to.
TargetNames == {<<1>>, <<2>>}
NoName == <<>>

Kinds == {"CreateTag", "DescTag", "DropTag", "ShowTags", "ShowCreateTag", "AlterTag"}
MutationKinds == {"CreateTag", "DropTag", "AlterTag"}
FormatKinds == {"DescTag", "ShowCreateTag"}

(***************************************************************************)
(* Status, exceptions and the Try a future carries.                        *)
(***************************************************************************)
NoStatus == [code |-> "none", msg |-> ""]
StatusOK == [code |-> "kOk", msg |-> ""]
\* The fixed status the bad_alloc handler returns.
memoryExceededStatus == [code |-> "kGraphMemoryExceeded", msg |-> "E_GRAPH_MEMORY_EXCEEDED"]
\* Failure statuses the MetaClient reports.
AuthFailures == {[code |-> "kError", msg |-> "not existed"],
                 [code |-> "kError", msg |-> "existed"]}
\* Failure statuses SchemaUtil reports.
FormatFailure == [code |-> "kError", msg |-> "bad default value"]

IsOk(st) == st.code = "kOk"

NoExc == [kind |-> "none", what |-> ""]
\* What can be thrown: std::bad_alloc, another std::exception, and a value
\* that is not a std::exception.
Faults == {[kind |-> "bad_alloc", what |-> "std::bad_alloc"],
           [kind |-> "std_exception", what |-> "boom"],
           [kind |-> "other", what |-> ""]}
BadAlloc == [kind |-> "bad_alloc", what |-> "std::bad_alloc"]
\* The dynamic types tag_t<std::exception> matches.
StdExceptionKinds == {"bad_alloc", "std_exception", "runtime_error"}

EmptyTry == [tag |-> "empty", status |-> NoStatus, exc |-> NoExc]
Val(st) == [tag |-> "value", status |-> st, exc |-> NoExc]
Exc(e) == [tag |-> "exception", status |-> NoStatus, exc |-> e]

(***************************************************************************)
(* Plan nodes.                                                             *)
(***************************************************************************)
\* meta::cpp2::Schema: property names, and whether a default value of it
\* cannot be rendered.
Schemas == {[props |-> <<>>, bad |-> FALSE],
            [props |-> << <<1>>, <<2>> >>, bad |-> FALSE],
            [props |-> << <<2>> >>, bad |-> TRUE]}
NoSchema == [props |-> <<>>, bad |-> FALSE]

AlterOps == {"ADD", "DROP"}
ItemLists == {<<>>} \cup [1..MaxItems -> AlterOps]
\* meta::cpp2::SchemaProp of an AlterTag node: its ttl_duration.
SchemaProps == {[ttl_duration |-> 0], [ttl_duration |-> 100]}
NoProp == [ttl_duration |-> 0]

Node(k, n, f, sc, it, pr, sp) ==
    [kind |-> k, name |-> n, flag |-> f, schema |-> sc, items |-> it, prop |-> pr,
     space |-> sp]

Nodes ==
    {Node("CreateTag", n, f, sc, <<>>, NoProp, 0) :
        n \in TargetNames, f \in BOOLEAN, sc \in {s \in Schemas : ~s.bad}}
    \cup {Node("DescTag", n, FALSE, NoSchema, <<>>, NoProp, 0) : n \in TargetNames}
    \cup {Node("DropTag", n, f, NoSchema, <<>>, NoProp, 0) : n \in TargetNames, f \in BOOLEAN}
    \cup {Node("ShowTags", NoName, FALSE, NoSchema, <<>>, NoProp, 0)}
    \cup {Node("ShowCreateTag", n, FALSE, NoSchema, <<>>, NoProp, 0) : n \in TargetNames}
    \cup {Node("AlterTag", n, FALSE, NoSchema, it, pr, sp) :
        n \in TargetNames, it \in ItemLists, pr \in SchemaProps, sp \in Spaces}
NoNode == Node("none", NoName, FALSE, NoSchema, <<>>, NoProp, 0)

(***************************************************************************)
(* Requests to and responses of the MetaClient.                            *)
(***************************************************************************)
NoReq == [op |-> "none", space |-> 0, name |-> NoName, flag |-> FALSE,
          schema |-> NoSchema, items |-> <<>>, prop |-> NoProp]

\* A mutant of Request: the alter items are sent in reverse order.
Request_reorders(n, spaceId) ==
    [op |-> CASE n.kind = "CreateTag" -> "createTagSchema"
              [] n.kind = "DropTag" -> "dropTagSchema"
              [] n.kind = "ShowTags" -> "listTagSchemas"
              [] n.kind = "AlterTag" -> "alterTagSchema"
              [] OTHER -> "getTagSchema",
     space |-> spaceId, name |-> n.name, flag |-> n.flag, schema |-> n.schema,
     items |-> [j \in 1..Len(n.items) |-> n.items[Len(n.items) + 1 - j]],
     prop |-> n.prop]

\* A mutant of Request: the existence guard of the node is not passed on.
Request_dropsGuard(n, spaceId) ==
    [op |-> CASE n.kind = "CreateTag" -> "createTagSchema"
              [] n.kind = "DropTag" -> "dropTagSchema"
              [] n.kind = "ShowTags" -> "listTagSchemas"
              [] n.kind = "AlterTag" -> "alterTagSchema"
              [] OTHER -> "getTagSchema",
     space |-> spaceId, name |-> n.name, flag |-> FALSE, schema |-> n.schema,
     items |-> n.items, prop |-> n.prop]

\* The MetaClient call of each execute(), with its arguments.
Request(n, spaceId) ==
    CASE n.kind = "CreateTag" ->
            [op |-> "createTagSchema", space |-> spaceId, name |-> n.name,
             flag |-> n.flag, schema |-> n.schema, items |-> <<>>, prop |-> NoProp]
      [] n.kind = "DescTag" ->
            [op |-> "getTagSchema", space |-> spaceId, name |-> n.name,
             flag |-> FALSE, schema |-> NoSchema, items |-> <<>>, prop |-> NoProp]
      [] n.kind = "DropTag" ->
            [op |-> "dropTagSchema", space |-> spaceId, name |-> n.name,
             flag |-> n.flag, schema |-> NoSchema, items |-> <<>>, prop |-> NoProp]
      [] n.kind = "ShowTags" ->
            [op |-> "listTagSchemas", space |-> spaceId, name |-> NoName,
             flag |-> FALSE, schema |-> NoSchema, items |-> <<>>, prop |-> NoProp]
      [] n.kind = "ShowCreateTag" ->
            [op |-> "getTagSchema", space |-> spaceId, name |-> n.name,
             flag |-> FALSE, schema |-> NoSchema, items |-> <<>>, prop |-> NoProp]
      [] n.kind = "AlterTag" ->
            [op |-> "alterTagSchema", space |-> spaceId, name |-> n.name,
             flag |-> FALSE, schema |-> NoSchema, items |-> n.items,
             prop |-> n.prop]

\* The space id execute() uses: the session's, but AlterTag takes the node's.
ResolveSpaceId(n, session) == IF n.kind = "AlterTag" THEN n.space ELSE session

TagItems == SeqsUpTo({[tag_name |-> n] : n \in Names}, MaxTags)
TagIDs == {7, 8}

NoResp == [tag |-> "none", status |-> NoStatus, exc |-> NoExc,
           id |-> 0, ack |-> FALSE, schema |-> NoSchema, tags |-> <<>>]
OkResp(id, ack, sc, tags) ==
    [tag |-> "ok", status |-> StatusOK, exc |-> NoExc,
     id |-> id, ack |-> ack, schema |-> sc, tags |-> tags]
FailResp(st) == [NoResp EXCEPT !.tag = "fail", !.status = st]
FaultResp(e) == [NoResp EXCEPT !.tag = "fault", !.exc = e]

\* What the future of the MetaClient call of kind k can resolve to:
\* a StatusOr holding the payload, a StatusOr holding a failure, an exception.
Responses(k) ==
    (CASE k = "CreateTag" -> {OkResp(id, FALSE, NoSchema, <<>>) : id \in TagIDs}
       [] k \in FormatKinds -> {OkResp(0, FALSE, sc, <<>>) : sc \in Schemas}
       [] k \in {"DropTag", "AlterTag"} -> {OkResp(0, a, NoSchema, <<>>) : a \in BOOLEAN}
       [] k = "ShowTags" -> {OkResp(0, FALSE, NoSchema, t) : t \in TagItems})
    \cup {FailResp(st) : st \in AuthFailures}
    \cup {FaultResp(e) : e \in Faults}

RespOk(r) == r.tag = "ok"

(***************************************************************************)
(* Tables (DataSet) and the lambdas' pure parts.                           *)
(***************************************************************************)
NoTable == [set |-> FALSE, colNames |-> <<>>, rows |-> <<>>]
Table(cols, rows) == [set |-> TRUE, colNames |-> cols, rows |-> rows]

\* std::less<std::string>: lexicographic on the characters, a proper prefix
\* is smaller.
RECURSIVE StrLess(_, _)
StrLess(a, b) ==
    IF b = <<>> THEN FALSE
    ELSE IF a = <<>> THEN TRUE
    ELSE IF Head(a) # Head(b) THEN Head(a) < Head(b)
    ELSE StrLess(Tail(a), Tail(b))

\* A mutant of SetEmplace: a container that keeps equal keys (std::multiset).
SetEmplace_keepsDuplicates(s, x) ==
    LET below == SelectSeq(s, LAMBDA y : StrLess(y, x) \/ y = x)
        above == SelectSeq(s, LAMBDA y : StrLess(x, y))
    IN below \o <<x>> \o above

\* std::set<std::string>::emplace on the set's ordered contents s: x goes
\* to its place in the order unless an equal key is present.
SetEmplace(s, x) ==
    IF \E j \in 1..Len(s) : ~StrLess(s[j], x) /\ ~StrLess(x, s[j])
    THEN s
    ELSE LET below == SelectSeq(s, LAMBDA y : StrLess(y, x))
             above == SelectSeq(s, LAMBDA y : StrLess(x, y))
         IN below \o <<x>> \o above

\* A mutant of OrderTagNames: the names are kept in the order of arrival,
\* each once.
RECURSIVE OrderTagNames_unsorted(_)
OrderTagNames_unsorted(tagItems) ==
    IF tagItems = <<>> THEN <<>>
    ELSE LET before == OrderTagNames_unsorted(SubSeq(tagItems, 1, Len(tagItems) - 1))
             x == tagItems[Len(tagItems)].tag_name
         IN IF \E j \in 1..Len(before) : before[j] = x THEN before
            ELSE Append(before, x)

\* The first loop of ShowTagsExecutor's lambda.
RECURSIVE OrderTagNames(_)
OrderTagNames(tagItems) ==
    IF tagItems = <<>> THEN <<>>
    ELSE SetEmplace(OrderTagNames(SubSeq(tagItems, 1, Len(tagItems) - 1)),
                    tagItems[Len(tagItems)].tag_name)

\* The DataSet ShowTagsExecutor's lambda builds: one row per element of the set.
ShowTagsDataSet(tagItems) ==
    LET orderTagNames == OrderTagNames(tagItems)
    IN Table(<<"Name">>, [j \in 1..Len(orderTagNames) |-> <<orderTagNames[j]>>])

\* SchemaUtil::toDescSchema: a StatusOr<DataSet>, one row per property.
toDescSchema(schema) ==
    IF schema.bad
    THEN [ok |-> FALSE, status |-> FormatFailure, value |-> NoTable]
    ELSE [ok |-> TRUE, status |-> StatusOK,
          value |-> Table(<<"Field">>, [j \in 1..Len(schema.props) |-> <<schema.props[j]>>])]

\* SchemaUtil::toShowCreateSchema: a StatusOr<DataSet>, one row holding the
\* name and the statement that creates the tag.
toShowCreateSchema(isTag, name, schema) ==
    IF schema.bad
    THEN [ok |-> FALSE, status |-> FormatFailure, value |-> NoTable]
    ELSE [ok |-> TRUE, status |-> StatusOK,
          value |-> Table(<<"Tag", "Create Tag">>, << <<name>> \o schema.props >>)]

\* The formatter call of the lambda of kind k.
Format(n, r) ==
    IF n.kind = "DescTag" THEN toDescSchema(r.schema)
    ELSE toShowCreateSchema(TRUE, n.name, r.schema)

\* Executor::finish: the status it returns after storing the result.
FinishStatus == StatusOK

\* A mutant of MutationReturn: a returned TagID other than the first one is
\* taken for a failure.
MutationReturn_idRequired(n, r) ==
    IF n.kind = "CreateTag" /\ r.id # 7
    THEN [code |-> "kError", msg |-> "failed"]
    ELSE StatusOK

\* A mutant of MutationReturn: the acknowledgement decides the status.
MutationReturn_ackRequired(n, r) ==
    IF n.kind \in {"DropTag", "AlterTag"} /\ ~r.ack
    THEN [code |-> "kError", msg |-> "failed"]
    ELSE StatusOK

\* `return Status::OK();` of the lambdas of CreateTag, DropTag and AlterTag:
\* the value of the response is not read.
MutationReturn(n, r) == StatusOK

\* A mutant of ValidateReturn: a status of the executor's own making.
ValidateReturn_rewrites(r) == [code |-> "kError", msg |-> "failed"]

\* `return resp.status();` of the lambdas' check of the response.
ValidateReturn(r) == r.status

\* A mutant of EarlyReturn: the failure is logged and OK is returned.
EarlyReturn_swallows(st, stored, partial) == [chain |-> Val(StatusOK), result |-> stored]

\* A mutant of EarlyReturn: the value at hand is stored before the failure
\* is returned.
EarlyReturn_stores(st, stored, partial) ==
    [chain |-> Val(st), result |-> [partial EXCEPT !.set = TRUE]]

\* A `return <failure status>;` of a lambda: the lambda returns st and does
\* not call finish(), so what the execution context stores stays as it is.
EarlyReturn(st, stored, partial) == [chain |-> Val(st), result |-> stored]

\* The log record of a LOG(WARNING) line of the lambda of node n.
LogRecord(n, spaceId, st) ==
    [space |-> spaceId, kind |-> n.kind, name |-> n.name, status |-> st]

\* A mutant of OnBadAlloc: no handler for std::bad_alloc.
OnBadAlloc_missing(t) == t

\* .thenError(folly::tag_t<std::bad_alloc>{}, ...): a bad_alloc becomes the
\* value memoryExceededStatus(); everything else passes.
OnBadAlloc(t) ==
    IF t.tag = "exception" /\ t.exc.kind = "bad_alloc"
    THEN Val(memoryExceededStatus)
    ELSE t

\* .thenError(folly::tag_t<std::exception>{}, ...): a std::exception becomes
\* makeFuture<Status>(std::runtime_error(e.what())), a future that holds an
\* exception; everything else passes.
OnException(t) ==
    IF t.tag = "exception" /\ t.exc.kind \in StdExceptionKinds
    THEN Exc([kind |-> "runtime_error", what |-> t.exc.what])
    ELSE t

\* A mutant of Via: the continuation runs on the thread that fulfilled the
\* future.
Via_missing(fulfiller) == fulfiller

\* .via(runner()): the continuations of the chain run on the runner,
\* whichever thread fulfils the MetaClient future.
Via(fulfiller) == "runner"

\* A mutant of MetaCallsAfter: the operation is called a second time.
MetaCallsAfter_twice(c) == c + 2

\* The number of evaluations of the MetaClient call expression after execute().
MetaCallsAfter(c) == c + 1

\* A mutant of ContinuationReady: the lambda does not wait for the future.
ContinuationReady_early(p) == p \in {"pending", "resolved"}

\* A mutant of ContinuationReady: the callback fires again on a fulfilled
\* chain.
ContinuationReady_again(p) == p \in {"resolved", "done"}

\* .via(runner()).thenValue(...): the continuation runs once the MetaClient
\* future is fulfilled.
ContinuationReady(p) == p = "resolved"

(***************************************************************************)
(* State.                                                                  *)
(***************************************************************************)
VARIABLES
    sessionSpace,  \* qctx()->rctx()->session()->space().id
    pc,            \* where each invocation is
    node,          \* the plan node of each invocation
    spaceId,       \* the space id execute() read and the lambda captured
    req,           \* the request the MetaClient received
    metaCalls,     \* evaluations of the MetaClient call expression
    resp,          \* what the MetaClient future resolved to
    pending,       \* the value the lambda built for finish()
    result,        \* what finish() stored in the execution context
    chain,         \* the Try passed down the chain of continuations
    future,        \* the Try of the future execute() returned
    raised,        \* the exception that left execute()
    log,           \* the LOG(WARNING) records of each invocation
    fault,         \* history: where an exception was thrown, and which
    events,        \* the steps of each invocation, with the thread of each
    sessionAt,     \* history: the session's space when execute() was called
    authTags,      \* the authority's tags: of each space, of each name
    served,        \* history: what the authority found when it served a call
    prev           \* history: the last query run since the authority changed

vars == <<sessionSpace, pc, node, spaceId, req, metaCalls, resp, pending,
          result, chain, future, raised, log, fault, events, sessionAt,
          authTags, served, prev>>

NoFault == [at |-> "none", exc |-> NoExc]
FaultAt(where, e) == [at |-> where, exc |-> e]

\* A tag of the authority: whether it exists, and its schema.
Absent == [present |-> FALSE, schema |-> NoSchema]
Present(sc) == [present |-> TRUE, schema |-> sc]
NoTags == [sp \in Spaces |-> [n \in TargetNames |-> Absent]]

NotServed == [set |-> FALSE, existed |-> FALSE]
NoPrev == [set |-> FALSE, node |-> NoNode, spaceId |-> 0, tags |-> <<>>,
           future |-> EmptyTry, result |-> NoTable]

Event(step, thread) == [step |-> step, on |-> thread]

Init ==
    /\ sessionSpace \in Spaces
    /\ pc = [i \in Cmds |-> "idle"]
    /\ node = [i \in Cmds |-> NoNode]
    /\ spaceId = [i \in Cmds |-> 0]
    /\ req = [i \in Cmds |-> NoReq]
    /\ metaCalls = [i \in Cmds |-> 0]
    /\ resp = [i \in Cmds |-> NoResp]
    /\ pending = [i \in Cmds |-> NoTable]
    /\ result = [i \in Cmds |-> NoTable]
    /\ chain = [i \in Cmds |-> EmptyTry]
    /\ future = [i \in Cmds |-> EmptyTry]
    /\ raised = [i \in Cmds |-> NoExc]
    /\ log = [i \in Cmds |-> <<>>]
    /\ fault = [i \in Cmds |-> NoFault]
    /\ events = [i \in Cmds |-> <<>>]
    /\ sessionAt = [i \in Cmds |-> 0]
    /\ authTags = NoTags
    /\ served = [i \in Cmds |-> NotServed]
    /\ prev = NoPrev

(***************************************************************************)
(* execute(): reads the node and the session, calls the MetaClient and     *)
(* returns the future with the continuations attached.                     *)
(***************************************************************************)
Execute(i, n) ==
    /\ pc[i] = "idle"
    /\ node' = [node EXCEPT ![i] = n]
    /\ spaceId' = [spaceId EXCEPT ![i] = ResolveSpaceId(n, sessionSpace)]
    /\ req' = [req EXCEPT ![i] = Request(n, ResolveSpaceId(n, sessionSpace))]
    /\ metaCalls' = [metaCalls EXCEPT ![i] = MetaCallsAfter(@)]
    /\ pc' = [pc EXCEPT ![i] = "pending"]
    /\ events' = [events EXCEPT ![i] = Append(@, Event("dispatch", "caller"))]
    /\ UNCHANGED <<sessionSpace, resp, pending, result, chain, future, raised, log, fault>>
    /\ sessionAt' = [sessionAt EXCEPT ![i] = sessionSpace]
    /\ UNCHANGED <<authTags, served, prev>>

\* execute() when the call expression throws e (copying the arguments, or
\* inside the MetaClient): execute() has no handler, e leaves it.
ExecuteFault(i, n, e) ==
    /\ pc[i] = "idle"
    /\ node' = [node EXCEPT ![i] = n]
    /\ spaceId' = [spaceId EXCEPT ![i] = ResolveSpaceId(n, sessionSpace)]
    /\ metaCalls' = [metaCalls EXCEPT ![i] = MetaCallsAfter(@)]
    /\ raised' = [raised EXCEPT ![i] = e]
    /\ pc' = [pc EXCEPT ![i] = "raised"]
    /\ events' = [events EXCEPT ![i] = Append(@, Event("dispatch", "caller"))]
    /\ fault' = [fault EXCEPT ![i] = FaultAt("dispatch", e)]
    /\ UNCHANGED <<sessionSpace, req, resp, pending, result, chain, future, log>>
    /\ sessionAt' = [sessionAt EXCEPT ![i] = sessionSpace]
    /\ UNCHANGED <<authTags, served, prev>>

\* The MetaClient fulfils its future.
Resolve(i, r) ==
    /\ pc[i] = "pending"
    /\ resp' = [resp EXCEPT ![i] = r]
    /\ pc' = [pc EXCEPT ![i] = "resolved"]
    /\ events' = [events EXCEPT ![i] = Append(@, Event("resolve", "meta"))]
    /\ fault' = [fault EXCEPT ![i] = IF r.tag = "fault" THEN FaultAt("meta", r.exc) ELSE @]
    /\ UNCHANGED <<sessionSpace, node, spaceId, req, metaCalls, pending, result,
                   chain, future, raised, log>>
    /\ UNCHANGED <<sessionAt, authTags, served, prev>>

\* The runner takes the continuation: thenValue calls the lambda when the
\* future holds a value and passes an exception on to the handlers.
Resume(i) ==
    /\ ContinuationReady(pc[i])
    /\ IF resp[i].tag = "fault"
       THEN /\ chain' = [chain EXCEPT ![i] = Exc(resp[i].exc)]
            /\ pc' = [pc EXCEPT ![i] = "h1"]
       ELSE /\ chain' = chain
            /\ pc' = [pc EXCEPT ![i] = "validate"]
    /\ events' = [events EXCEPT ![i] = Append(@, Event("resume", Via("meta")))]
    /\ UNCHANGED <<sessionSpace, node, spaceId, req, metaCalls, resp, pending,
                   result, future, raised, log, fault>>
    /\ UNCHANGED <<sessionAt, authTags, served, prev>>

\* A mutant of Validate: the log line reads the session's space again.
Validate_readsSession(i) ==
    /\ pc[i] = "validate"
    /\ IF ~RespOk(resp[i])
       THEN LET out == EarlyReturn(ValidateReturn(resp[i]), result[i], NoTable)
            IN /\ log' = [log EXCEPT ![i] =
                            Append(@, LogRecord(node[i], sessionSpace, resp[i].status))]
               /\ chain' = [chain EXCEPT ![i] = out.chain]
               /\ result' = [result EXCEPT ![i] = out.result]
               /\ pc' = [pc EXCEPT ![i] = "h1"]
       ELSE /\ pc' = [pc EXCEPT ![i] = "transform"]
            /\ UNCHANGED <<log, chain, result>>
    /\ events' = [events EXCEPT ![i] = Append(@, Event("validate", Via("meta")))]
    /\ UNCHANGED <<sessionSpace, node, spaceId, req, metaCalls, resp, pending,
                   future, raised, fault>>
    /\ UNCHANGED <<sessionAt, authTags, served, prev>>

\* The lambda's `if (!resp.ok()) { LOG(WARNING) ...; return resp.status(); }`.
Validate(i) ==
    /\ pc[i] = "validate"
    /\ IF ~RespOk(resp[i])
       THEN LET out == EarlyReturn(ValidateReturn(resp[i]), result[i], NoTable)
            IN /\ log' = [log EXCEPT ![i] =
                            Append(@, LogRecord(node[i], spaceId[i], resp[i].status))]
               /\ chain' = [chain EXCEPT ![i] = out.chain]
               /\ result' = [result EXCEPT ![i] = out.result]
               /\ pc' = [pc EXCEPT ![i] = "h1"]
       ELSE /\ pc' = [pc EXCEPT ![i] = "transform"]
            /\ UNCHANGED <<log, chain, result>>
    /\ events' = [events EXCEPT ![i] = Append(@, Event("validate", Via("meta")))]
    /\ UNCHANGED <<sessionSpace, node, spaceId, req, metaCalls, resp, pending,
                   future, raised, fault>>
    /\ UNCHANGED <<sessionAt, authTags, served, prev>>

\* The same branch when an allocation under the MemoryCheckGuard fails: in
\* the log statement (nothing is logged) or in copying the status to return.
ValidateFault(i, logged) ==
    /\ pc[i] = "validate"
    /\ ~RespOk(resp[i])
    /\ log' = [log EXCEPT ![i] =
                 IF logged THEN Append(@, LogRecord(node[i], spaceId[i], resp[i].status))
                 ELSE @]
    /\ chain' = [chain EXCEPT ![i] = Exc(BadAlloc)]
    /\ pc' = [pc EXCEPT ![i] = "h1"]
    /\ events' = [events EXCEPT ![i] = Append(@, Event("validate", Via("meta")))]
    /\ fault' = [fault EXCEPT ![i] = FaultAt("validate", BadAlloc)]
    /\ UNCHANGED <<sessionSpace, node, spaceId, req, metaCalls, resp, pending,
                   result, future, raised>>
    /\ UNCHANGED <<sessionAt, authTags, served, prev>>

\* The rest of the lambda up to the call of finish().
Transform(i) ==
    /\ pc[i] = "transform"
    /\ IF node[i].kind \in MutationKinds
       THEN \* return Status::OK();
            /\ chain' = [chain EXCEPT ![i] = Val(MutationReturn(node[i], resp[i]))]
            /\ pc' = [pc EXCEPT ![i] = "h1"]
            /\ UNCHANGED <<pending, result, log>>
       ELSE IF node[i].kind = "ShowTags"
       THEN /\ pending' = [pending EXCEPT ![i] = ShowTagsDataSet(resp[i].tags)]
            /\ pc' = [pc EXCEPT ![i] = "finish"]
            /\ UNCHANGED <<chain, result, log>>
       ELSE LET ret == Format(node[i], resp[i])
            IN IF ~ret.ok
               THEN LET out == EarlyReturn(ret.status, result[i], ret.value)
                    IN \* the log line prints resp.status(), not ret.status()
                       /\ log' = [log EXCEPT ![i] =
                                    Append(@, LogRecord(node[i], spaceId[i], resp[i].status))]
                       /\ chain' = [chain EXCEPT ![i] = out.chain]
                       /\ result' = [result EXCEPT ![i] = out.result]
                       /\ pc' = [pc EXCEPT ![i] = "h1"]
                       /\ UNCHANGED pending
               ELSE /\ pending' = [pending EXCEPT ![i] = ret.value]
                    /\ pc' = [pc EXCEPT ![i] = "finish"]
                    /\ UNCHANGED <<chain, result, log>>
    /\ events' = [events EXCEPT ![i] = Append(@, Event("transform", Via("meta")))]
    /\ UNCHANGED <<sessionSpace, node, spaceId, req, metaCalls, resp, future, raised, fault>>
    /\ UNCHANGED <<sessionAt, authTags, served, prev>>

\* What the body of a lambda of kind k can throw: the formatter anything, the
\* containers of ShowTags a std::exception; `return Status::OK();` nothing.
TransformFaults(k) ==
    IF k \in FormatKinds THEN Faults
    ELSE IF k = "ShowTags" THEN {e \in Faults : e.kind \in StdExceptionKinds}
    ELSE {}

\* The body throws e before finish() is called.
TransformFault(i, e) ==
    /\ pc[i] = "transform"
    /\ e \in TransformFaults(node[i].kind)
    /\ chain' = [chain EXCEPT ![i] = Exc(e)]
    /\ pc' = [pc EXCEPT ![i] = "h1"]
    /\ events' = [events EXCEPT ![i] = Append(@, Event("transform", Via("meta")))]
    /\ fault' = [fault EXCEPT ![i] = FaultAt("transform", e)]
    /\ UNCHANGED <<sessionSpace, node, spaceId, req, metaCalls, resp, pending,
                   result, future, raised, log>>
    /\ UNCHANGED <<sessionAt, authTags, served, prev>>

\* The branch `if (!ret.ok())` of DescTag and ShowCreateTag when, after the
\* log statement, copying the status to return fails to allocate under the
\* MemoryCheckGuard.
FormatFailFault(i) ==
    /\ pc[i] = "transform"
    /\ node[i].kind \in FormatKinds
    /\ ~Format(node[i], resp[i]).ok
    /\ log' = [log EXCEPT ![i] =
                 Append(@, LogRecord(node[i], spaceId[i], resp[i].status))]
    /\ chain' = [chain EXCEPT ![i] = Exc(BadAlloc)]
    /\ fault' = [fault EXCEPT ![i] = FaultAt("transform", BadAlloc)]
    /\ pc' = [pc EXCEPT ![i] = "h1"]
    /\ events' = [events EXCEPT ![i] = Append(@, Event("transform", Via("meta")))]
    /\ UNCHANGED <<sessionSpace, node, spaceId, req, metaCalls, resp, pending,
                   result, future, raised>>
    /\ UNCHANGED <<sessionAt, authTags, served, prev>>

\* A mutant of Finish: the executors store their results in one shared slot.
Finish_sharedSlot(i) ==
    /\ pc[i] = "finish"
    /\ result' = [j \in Cmds |-> pending[i]]
    /\ chain' = [chain EXCEPT ![i] = Val(FinishStatus)]
    /\ pc' = [pc EXCEPT ![i] = "h1"]
    /\ events' = [events EXCEPT ![i] = Append(@, Event("finish", Via("meta")))]
    /\ UNCHANGED <<sessionSpace, node, spaceId, req, metaCalls, resp, pending,
                   future, raised, log, fault>>
    /\ UNCHANGED <<sessionAt, authTags, served, prev>>

\* return finish(ResultBuilder().value(...).iter(...).build());
Finish(i) ==
    /\ pc[i] = "finish"
    /\ result' = [result EXCEPT ![i] = pending[i]]
    /\ chain' = [chain EXCEPT ![i] = Val(FinishStatus)]
    /\ pc' = [pc EXCEPT ![i] = "h1"]
    /\ events' = [events EXCEPT ![i] = Append(@, Event("finish", Via("meta")))]
    /\ UNCHANGED <<sessionSpace, node, spaceId, req, metaCalls, resp, pending,
                   future, raised, log, fault>>
    /\ UNCHANGED <<sessionAt, authTags, served, prev>>

\* The first thenError of the chain.
HandleBadAlloc(i) ==
    /\ pc[i] = "h1"
    /\ chain' = [chain EXCEPT ![i] = OnBadAlloc(@)]
    /\ pc' = [pc EXCEPT ![i] = "h2"]
    /\ events' = [events EXCEPT ![i] = Append(@, Event("thenError1", Via("meta")))]
    /\ UNCHANGED <<sessionSpace, node, spaceId, req, metaCalls, resp, pending,
                   result, future, raised, log, fault>>
    /\ UNCHANGED <<sessionAt, authTags, served, prev>>

\* The second thenError of the chain; its result fulfils the future
\* execute() returned.
HandleException(i) ==
    /\ pc[i] = "h2"
    /\ future' = [future EXCEPT ![i] = OnException(chain[i])]
    /\ pc' = [pc EXCEPT ![i] = "done"]
    /\ events' = [events EXCEPT ![i] = Append(@, Event("complete", Via("meta")))]
    /\ UNCHANGED <<sessionSpace, node, spaceId, req, metaCalls, resp, pending,
                   result, chain, raised, log, fault>>
    /\ UNCHANGED <<sessionAt, authTags, served, prev>>

\* The session's space changes (a USE statement of the same session).
SwitchSpace(s) ==
    /\ s # sessionSpace
    /\ sessionSpace' = s
    /\ UNCHANGED <<pc, node, spaceId, req, metaCalls, resp, pending, result,
                   chain, future, raised, log, fault, events>>
    /\ UNCHANGED <<sessionAt, authTags, served, prev>>

Next ==
    \/ \E i \in Solo, n \in Nodes : Execute(i, n)
    \/ \E i \in Solo, n \in Nodes, e \in Faults : ExecuteFault(i, n, e)
    \/ \E i \in Solo : pc[i] = "pending" /\ \E r \in Responses(node[i].kind) : Resolve(i, r)
    \/ \E i \in Solo : Resume(i)
    \/ \E i \in Solo : Validate(i)
    \/ \E i \in Solo, logged \in BOOLEAN : ValidateFault(i, logged)
    \/ \E i \in Solo : Transform(i)
    \/ \E i \in Solo, e \in Faults : TransformFault(i, e)
    \/ \E i \in Solo : FormatFailFault(i)
    \/ \E i \in Solo : Finish(i)
    \/ \E i \in Solo : HandleBadAlloc(i)
    \/ \E i \in Solo : HandleException(i)
    \/ \E s \in Spaces : SwitchSpace(s)

Spec == Init /\ [][Next]_vars

\* The steps the runner takes for invocation i.
RunnerStep(i) ==
    \/ Resume(i)
    \/ Validate(i)
    \/ \E logged \in BOOLEAN : ValidateFault(i, logged)
    \/ Transform(i)
    \/ \E e \in Faults : TransformFault(i, e)
    \/ FormatFailFault(i)
    \/ Finish(i)
    \/ HandleBadAlloc(i)
    \/ HandleException(i)

\* The responses followed under fairness: whether the future is fulfilled
\* does not depend on how many tags a list response holds.
FairResponses(k) == {r \in Responses(k) : Len(r.tags) <= 1}

NextFair ==
    \/ \E i \in Solo, n \in Nodes : Execute(i, n)
    \/ \E i \in Solo, n \in Nodes, e \in Faults : ExecuteFault(i, n, e)
    \/ \E i \in Solo : pc[i] = "pending" /\ \E r \in FairResponses(node[i].kind) : Resolve(i, r)
    \/ \E i \in Solo : RunnerStep(i)
    \/ \E s \in Spaces : SwitchSpace(s)

\* The runner runs what is handed to it: a continuation that is ready is
\* eventually run.  Nothing is assumed of the MetaClient.
SpecFair == Init /\ [][NextFair]_vars /\ \A i \in Solo : WF_vars(RunnerStep(i))

(***************************************************************************)
(* The executors against an authority that keeps the tags of each space    *)
(* and honours the existence guards.  Commands run one after the other;    *)
(* nothing is thrown locally.                                              *)
(***************************************************************************)
\* The nodes run against the authority.
AuthNodes == {n \in Nodes : n.kind # "AlterTag"}

PresentNames(tg, sp) == {n \in TargetNames : tg[sp][n].present}

\* The lists the authority may return for the set S of names: every name of
\* S, in any order, any of them more than once (a TagItem per version).
AuthLists(S) ==
    {t \in SeqsUpTo({[tag_name |-> n] : n \in S}, MaxTags) :
        {t[j].tag_name : j \in 1..Len(t)} = S}

AuthTagId(n) == IF n = <<1>> THEN 7 ELSE 8

\* What the authority answers to request rq in state tg, and its state after.
AuthReply(rq, tg) ==
    LET cur == tg[rq.space][rq.name]
        Put(v) == [tg EXCEPT ![rq.space][rq.name] = v]
    IN CASE rq.op = "createTagSchema" ->
              IF cur.present
              THEN IF rq.flag
                   THEN {[resp |-> OkResp(AuthTagId(rq.name), FALSE, NoSchema, <<>>),
                          tags |-> tg]}
                   ELSE {[resp |-> FailResp([code |-> "kError", msg |-> "existed"]),
                          tags |-> tg]}
              ELSE {[resp |-> OkResp(AuthTagId(rq.name), FALSE, NoSchema, <<>>),
                     tags |-> Put(Present(rq.schema))]}
         [] rq.op = "dropTagSchema" ->
              IF ~cur.present
              THEN IF rq.flag
                   THEN {[resp |-> OkResp(0, TRUE, NoSchema, <<>>), tags |-> tg]}
                   ELSE {[resp |-> FailResp([code |-> "kError", msg |-> "not existed"]),
                          tags |-> tg]}
              ELSE {[resp |-> OkResp(0, TRUE, NoSchema, <<>>), tags |-> Put(Absent)]}
         [] rq.op = "getTagSchema" ->
              IF cur.present
              THEN {[resp |-> OkResp(0, FALSE, cur.schema, <<>>), tags |-> tg]}
              ELSE {[resp |-> FailResp([code |-> "kError", msg |-> "not existed"]),
                     tags |-> tg]}
         [] rq.op = "listTagSchemas" ->
              {[resp |-> OkResp(0, FALSE, NoSchema, t), tags |-> tg] :
                  t \in AuthLists(PresentNames(tg, rq.space))}

\* Whether the target of rq exists in state tg.
Existed(rq, tg) == rq.name \in TargetNames /\ tg[rq.space][rq.name].present

\* The authority serves the call of invocation i and fulfils its future.
AuthServe(i) ==
    /\ pc[i] = "pending"
    /\ \E o \in AuthReply(req[i], authTags) :
          /\ resp' = [resp EXCEPT ![i] = o.resp]
          /\ authTags' = o.tags
          /\ prev' = IF o.tags # authTags THEN NoPrev ELSE prev
    /\ served' = [served EXCEPT ![i] = [set |-> TRUE, existed |-> Existed(req[i], authTags)]]
    /\ pc' = [pc EXCEPT ![i] = "resolved"]
    /\ events' = [events EXCEPT ![i] = Append(@, Event("resolve", "meta"))]
    /\ UNCHANGED <<sessionSpace, node, spaceId, req, metaCalls, pending, result,
                   chain, future, raised, log, fault, sessionAt>>

\* The executor of a completed command is discarded; the next command gets
\* a new one.  A completed query is kept for comparison with the next.
Retire(i) ==
    /\ pc[i] = "done"
    /\ prev' = IF node[i].kind \in {"DescTag", "ShowTags"}
               THEN [set |-> TRUE, node |-> node[i], spaceId |-> spaceId[i],
                     tags |-> resp[i].tags, future |-> future[i],
                     result |-> result[i]]
               ELSE prev
    /\ pc' = [pc EXCEPT ![i] = "idle"]
    /\ node' = [node EXCEPT ![i] = NoNode]
    /\ spaceId' = [spaceId EXCEPT ![i] = 0]
    /\ req' = [req EXCEPT ![i] = NoReq]
    /\ metaCalls' = [metaCalls EXCEPT ![i] = 0]
    /\ resp' = [resp EXCEPT ![i] = NoResp]
    /\ pending' = [pending EXCEPT ![i] = NoTable]
    /\ result' = [result EXCEPT ![i] = NoTable]
    /\ chain' = [chain EXCEPT ![i] = EmptyTry]
    /\ future' = [future EXCEPT ![i] = EmptyTry]
    /\ log' = [log EXCEPT ![i] = <<>>]
    /\ events' = [events EXCEPT ![i] = <<>>]
    /\ sessionAt' = [sessionAt EXCEPT ![i] = 0]
    /\ served' = [served EXCEPT ![i] = NotServed]
    /\ fault' = [fault EXCEPT ![i] = NoFault]
    /\ UNCHANGED <<sessionSpace, raised, authTags>>

NextAuth ==
    \/ \E i \in Solo, n \in AuthNodes : Execute(i, n)
    \/ \E i \in Solo : AuthServe(i)
    \/ \E i \in Solo : Resume(i)
    \/ \E i \in Solo : Validate(i)
    \/ \E i \in Solo : Transform(i)
    \/ \E i \in Solo : Finish(i)
    \/ \E i \in Solo : HandleBadAlloc(i)
    \/ \E i \in Solo : HandleException(i)
    \/ \E i \in Solo : Retire(i)
    \/ \E s \in Spaces : SwitchSpace(s)

SpecAuth == Init /\ [][NextAuth]_vars

(***************************************************************************)
(* Two invocations at once: their steps interleave in every way.           *)
(***************************************************************************)
\* The nodes of the concurrent invocations.
ConcNodes ==
    {Node("ShowTags", NoName, FALSE, NoSchema, <<>>, NoProp, 0),
     Node("DescTag", <<1>>, FALSE, NoSchema, <<>>, NoProp, 0),
     Node("DropTag", <<1>>, FALSE, NoSchema, <<>>, NoProp, 0)}

\* The responses to them: of the lists, those of at most one tag.
ConcResponses(k) ==
    IF k = "ShowTags"
    THEN {OkResp(0, FALSE, NoSchema, t) :
             t \in SeqsUpTo({[tag_name |-> n] : n \in TargetNames}, 1)}
         \cup {FailResp(st) : st \in AuthFailures}
         \cup {FaultResp(e) : e \in Faults}
    ELSE Responses(k)

NextConc ==
    \/ \E i \in Cmds, n \in ConcNodes : Execute(i, n)
    \/ \E i \in Cmds : pc[i] = "pending" /\ \E r \in ConcResponses(node[i].kind) : Resolve(i, r)
    \/ \E i \in Cmds : RunnerStep(i)
    \/ \E s \in Spaces : SwitchSpace(s)

SpecConc == Init /\ [][NextConc]_vars

(***************************************************************************)
(* Properties.                                                             *)
(***************************************************************************)
Done(i) == pc[i] = "done"
Succeeded(i) == Done(i) /\ future[i].tag = "value" /\ IsOk(future[i].status)
Failed(i) == Done(i) /\ ~(future[i].tag = "value" /\ IsOk(future[i].status))
Steps(i) == [j \in 1..Len(events[i]) |-> events[i][j].step]
Happened(i, step) == \E j \in 1..Len(events[i]) : events[i][j].step = step
Count(i, step) == Cardinality({j \in 1..Len(events[i]) : events[i][j].step = step})

\* C1: whatever the MetaClient future resolves to and whatever is thrown
\* inside the continuation, the future execute() returned completes with a
\* Status value, never with an exception.
C1_FutureHoldsStatus ==
    \A i \in Cmds : Done(i) => future[i].tag = "value"

\* C2: row production and failure exclude each other: an invocation that
\* ends in failure has stored no table, and where a table is stored the
\* status passed down the chain and returned is success.
C2_RowsExcludeFailure ==
    \A i \in Cmds :
        /\ Failed(i) => ~result[i].set
        /\ result[i].set =>
              /\ chain[i] = Val(StatusOK)
              /\ future[i] \in {EmptyTry, Val(StatusOK)}
              /\ raised[i] = NoExc

\* C2 witness: a DescTag whose formatter failed has completed with that
\* failure and no table is stored.
C2_Witness ==
    \E i \in Cmds :
        /\ Done(i) /\ node[i].kind = "DescTag" /\ RespOk(resp[i])
        /\ future[i] = Val(FormatFailure)
        /\ ~result[i].set

RowName(row) == row[1]

\* C3: the table ShowTags stores has the one column "Name" and one row per
\* distinct tag name of the response, in strictly ascending order.
C3_ShowTagsSortedDistinct ==
    \A i \in Cmds :
        (node[i].kind = "ShowTags" /\ result[i].set) =>
            LET rows == result[i].rows
                tags == resp[i].tags
            IN /\ result[i].colNames = <<"Name">>
               /\ \A j \in 1..Len(rows) : Len(rows[j]) = 1
               /\ \A j \in 1..(Len(rows) - 1) :
                      StrLess(RowName(rows[j]), RowName(rows[j + 1]))
               /\ {RowName(rows[j]) : j \in 1..Len(rows)}
                      = {tags[j].tag_name : j \in 1..Len(tags)}

\* C3 witness: the tags ba, b, b came back and the rows b, ba are stored.
C3_Witness ==
    \E i \in Cmds :
        /\ Done(i) /\ node[i].kind = "ShowTags"
        /\ resp[i].tags = <<[tag_name |-> <<2, 1>>], [tag_name |-> <<2>>],
                            [tag_name |-> <<2>>]>>
        /\ result[i].rows = << <<<<2>>>>, <<<<2, 1>>>> >>

\* The part of C4 every failure response satisfies: nothing after the check
\* of the response runs.
StopsAtValidate(i) ==
    /\ ~Happened(i, "transform")
    /\ ~Happened(i, "finish")
    /\ ~pending[i].set
    /\ ~result[i].set

\* C4 as stated: a failure status S of the response is the status the
\* command returns, and neither transform nor finish() runs.
C4_Original ==
    \A i \in Cmds :
        resp[i].tag = "fail" =>
            /\ StopsAtValidate(i)
            /\ Done(i) => future[i] = Val(resp[i].status)

\* C4 amended: on a failure status S neither transform nor finish() runs;
\* the command returns S unless the allocation of the failure branch itself
\* fails, and then it returns the memory-exceeded status.
C4_FailureStopsAtValidate ==
    \A i \in Cmds :
        resp[i].tag = "fail" =>
            /\ StopsAtValidate(i)
            /\ (Done(i) /\ fault[i].at = "none") => future[i] = Val(resp[i].status)
            /\ (Done(i) /\ fault[i].at # "none") =>
                  /\ fault[i] = FaultAt("validate", BadAlloc)
                  /\ future[i] = Val(memoryExceededStatus)

\* C4 witness: a DropTag the authority refused has completed with the
\* authority's status.
C4_Witness ==
    \E i \in Cmds :
        /\ Done(i) /\ node[i].kind = "DropTag"
        /\ resp[i].tag = "fail" /\ fault[i].at = "none"
        /\ future[i] = Val(resp[i].status)
        /\ Happened(i, "validate")

\* C5: a bad_alloc thrown in the lambda is never passed to the second
\* handler as an exception; the command completes with the value
\* memoryExceededStatus().
C5_BadAllocIsMemoryExceeded ==
    \A i \in Cmds :
        (fault[i].at \in {"validate", "transform"} /\ fault[i].exc.kind = "bad_alloc") =>
            /\ pc[i] = "h2" => chain[i] = Val(memoryExceededStatus)
            /\ Done(i) => future[i] = Val(memoryExceededStatus)

\* C5 witness: the body of a ShowTags lambda threw bad_alloc and the command
\* has completed.
C5_Witness ==
    \E i \in Cmds :
        /\ Done(i) /\ node[i].kind = "ShowTags"
        /\ fault[i] = FaultAt("transform", BadAlloc)
        /\ future[i] = Val(memoryExceededStatus)

\* C6: a fault of the body other than bad_alloc makes the command complete
\* with a failure Status value whose message is the fault's description.
C6_FaultBecomesStatus ==
    \A i \in Cmds :
        (Done(i) /\ fault[i].at = "transform" /\ fault[i].exc.kind # "bad_alloc") =>
            /\ future[i].tag = "value"
            /\ ~IsOk(future[i].status)
            /\ future[i].status.msg = fault[i].exc.what

\* C7: a bad_alloc thrown while execute() dispatches does not leave
\* execute(); the command yields the memory-exceeded status.
C7_DispatchBadAllocConverted ==
    \A i \in Cmds :
        (fault[i].at = "dispatch" /\ fault[i].exc.kind = "bad_alloc") =>
            /\ raised[i] = NoExc
            /\ pc[i] # "raised"

\* C8: a command that ends in failure has logged, before it completed, the
\* space id, the command kind, the target name and the status it returns.
C8_FailureLogged ==
    \A i \in Cmds :
        Failed(i) =>
            /\ log[i] # <<>>
            /\ future[i].tag = "value"
            /\ log[i][Len(log[i])] = LogRecord(node[i], spaceId[i], future[i].status)

\* C9: the MetaClient operation is called once per invocation, on every
\* path: one dispatch, at most one resolution, no second call.
C9_SingleDispatch ==
    \A i \in Cmds :
        /\ metaCalls[i] <= 1
        /\ pc[i] # "idle" => (metaCalls[i] = 1 /\ Count(i, "dispatch") = 1)
        /\ Count(i, "resolve") <= 1
        /\ Count(i, "resume") <= 1

\* C9 witness: a command the authority refused has completed after one call.
C9_Witness ==
    \E i \in Cmds :
        /\ Done(i) /\ resp[i].tag = "fail"
        /\ metaCalls[i] = 1
        /\ req[i].op # "none"

\* The steps that may come directly before a step.
AllowedBefore(step) ==
    CASE step = "resolve" -> {"dispatch"}
      [] step = "resume" -> {"resolve"}
      [] step = "validate" -> {"resume"}
      [] step = "transform" -> {"validate"}
      [] step = "finish" -> {"transform"}
      [] step = "thenError1" -> {"resume", "validate", "transform", "finish"}
      [] step = "complete" -> {"thenError1"}
      [] OTHER -> {}

\* C10: the steps of an invocation are ordered dispatch, resolution of the
\* MetaClient call, resume, validate, transform, finish, completion: no step
\* runs before the one it depends on, finish() runs on the table transform
\* built, and the future completes last.
C10_StepsOrdered ==
    \A i \in Cmds :
        /\ \A j \in 1..Len(events[i]) :
              IF j = 1 THEN events[i][j].step = "dispatch"
              ELSE events[i][j - 1].step \in AllowedBefore(events[i][j].step)
        /\ Happened(i, "validate") => resp[i].tag \in {"ok", "fail"}
        /\ Happened(i, "finish") => (pending[i].set /\ result[i] = pending[i])
        /\ result[i].set => Happened(i, "finish")
        /\ future[i] # EmptyTry =>
              /\ events[i][Len(events[i])].step = "complete"
              /\ chain[i] # EmptyTry

\* C10 witness: a DescTag ran through all the steps.
C10_Witness ==
    \E i \in Cmds :
        /\ node[i].kind = "DescTag"
        /\ Steps(i) = <<"dispatch", "resolve", "resume", "validate", "transform",
                        "finish", "thenError1", "complete">>
        /\ Succeeded(i)

\* C11: one outcome per invocation: the future is fulfilled at most once
\* and keeps its value, and once the MetaClient call has resolved, with the
\* runner running the continuation, the future is eventually fulfilled.
C11_ExactlyOneOutcome ==
    /\ [][\A i \in Cmds : future[i] # EmptyTry => future'[i] = future[i]]_vars
    /\ [](\A i \in Cmds : Count(i, "complete") <= 1)
    /\ \A i \in Cmds : (pc[i] = "resolved") ~> (Done(i) /\ future[i] # EmptyTry)

\* C11 witness: an invocation whose MetaClient call resolved with an
\* exception has fulfilled its future once.
C11_Witness ==
    \E i \in Cmds :
        /\ Done(i) /\ resp[i].tag = "fault"
        /\ future[i] # EmptyTry
        /\ Count(i, "complete") = 1

\* C12: when the authority reports success to CreateTag, DropTag or
\* AlterTag, the command returns OK and produces no rows: finish() is not
\* called and no table is built or stored.
C12_MutationSuccessNoRows ==
    \A i \in Cmds :
        (node[i].kind \in {"CreateTag", "DropTag", "AlterTag"} /\ RespOk(resp[i])) =>
            /\ ~Happened(i, "finish")
            /\ ~pending[i].set
            /\ ~result[i].set
            /\ Happened(i, "transform") => chain[i] = Val(StatusOK)
            /\ Done(i) => future[i] = Val(StatusOK)

\* C12 witness: a CreateTag the authority accepted has completed with OK
\* and nothing is stored.
C12_Witness ==
    \E i \in Cmds :
        /\ Done(i) /\ node[i].kind = "CreateTag"
        /\ resp[i].tag = "ok" /\ resp[i].id = 8
        /\ future[i] = Val(StatusOK)
        /\ ~result[i].set

FormatterFailed(i) ==
    /\ node[i].kind \in FormatKinds
    /\ RespOk(resp[i])
    /\ ~Format(node[i], resp[i]).ok
    /\ Happened(i, "transform")
    /\ log[i] # <<>>

\* C14 as stated: when the formatter returns the failure F for a successful
\* payload, the command returns F and finish() is not called.
C14_Original ==
    \A i \in Cmds :
        FormatterFailed(i) =>
            /\ ~Happened(i, "finish")
            /\ ~result[i].set
            /\ Done(i) => future[i] = Val(Format(node[i], resp[i]).status)

\* C14 amended: when the formatter returns the failure F, finish() is not
\* called and no rows are produced; the command returns F unless the
\* allocation of the failure branch itself fails, and then it returns the
\* memory-exceeded status.
C14_FormatFailureNoRows ==
    \A i \in Cmds :
        FormatterFailed(i) =>
            /\ ~Happened(i, "finish")
            /\ ~pending[i].set
            /\ ~result[i].set
            /\ (Done(i) /\ fault[i].at = "none") =>
                  future[i] = Val(Format(node[i], resp[i]).status)
            /\ (Done(i) /\ fault[i].at # "none") =>
                  /\ fault[i] = FaultAt("transform", BadAlloc)
                  /\ future[i] = Val(memoryExceededStatus)

\* C14 witness: a ShowCreateTag whose formatter failed has completed with
\* the formatter's status and no table.
C14_Witness ==
    \E i \in Cmds :
        /\ Done(i) /\ node[i].kind = "ShowCreateTag"
        /\ FormatterFailed(i) /\ fault[i].at = "none"
        /\ future[i] = Val(FormatFailure)
        /\ ~result[i].set

\* What the chain makes of the exception e.
Handled(e) == OnException(OnBadAlloc(Exc(e)))

\* The outcome of invocation i as its own node, its own space id and the
\* response to its own call determine it (and what was thrown in its own
\* continuation).
OwnOutcome(i) ==
    LET n == node[i]
        r == resp[i]
    IN /\ req[i] = Request(n, spaceId[i])
       /\ spaceId[i] = ResolveSpaceId(n, sessionAt[i])
       /\ \A j \in 1..Len(log[i]) : log[i][j].space = spaceId[i] /\ log[i][j].name = n.name
       /\ IF r.tag = "fault" THEN future[i] = Handled(r.exc) /\ ~result[i].set
          ELSE IF fault[i].at # "none" THEN future[i] = Handled(fault[i].exc) /\ ~result[i].set
          ELSE IF r.tag = "fail" THEN future[i] = Val(r.status) /\ ~result[i].set
          ELSE IF n.kind = "DropTag" THEN future[i] = Val(StatusOK) /\ ~result[i].set
          ELSE IF n.kind = "DescTag"
          THEN IF r.schema.bad
               THEN future[i] = Val(FormatFailure) /\ ~result[i].set
               ELSE /\ future[i] = Val(StatusOK)
                    /\ result[i].set
                    /\ result[i].rows = [j \in 1..Len(r.schema.props) |-> <<r.schema.props[j]>>]
          ELSE /\ future[i] = Val(StatusOK)
               /\ result[i].set
               /\ {RowName(result[i].rows[j]) : j \in 1..Len(result[i].rows)}
                     = {r.tags[j].tag_name : j \in 1..Len(r.tags)}

\* The per-invocation state of i.
Own(i) ==
    <<pc[i], node[i], spaceId[i], req[i], metaCalls[i], resp[i], pending[i],
      result[i], chain[i], future[i], raised[i], log[i], fault[i], events[i],
      sessionAt[i]>>

\* C15: with two invocations interleaved in every way, the status and rows
\* of each are those its own node, space id and response determine, and a
\* step of one invocation leaves the state of the other as it was.
C15_Independent ==
    /\ [](\A i \in Cmds : Done(i) => OwnOutcome(i))
    /\ [][\A i \in Cmds : pc'[i] = pc[i] => Own(i)' = Own(i)]_vars

\* C15 witness: two ShowTags, dispatched in different spaces, have both
\* completed, each with the one row of its own response.
C15_Witness ==
    /\ Done(1) /\ Done(2)
    /\ node[1].kind = "ShowTags" /\ result[1].set /\ Len(result[1].rows) = 1
    /\ node[2].kind = "ShowTags" /\ result[2].set /\ Len(result[2].rows) = 1
    /\ result[1] # result[2]
    /\ spaceId[1] # spaceId[2]

SpaceIdUsed(i) ==
    /\ req[i].op # "none" => req[i].space = spaceId[i]
    /\ \A j \in 1..Len(log[i]) : log[i][j].space = spaceId[i]

\* C17 as stated: each of the six commands takes the space id from the
\* session when execute() is called and uses that value in the request and
\* in the failure log.
C17_Original ==
    \A i \in Cmds :
        pc[i] # "idle" => (spaceId[i] = sessionAt[i] /\ SpaceIdUsed(i))

\* C17 amended: CreateTag, DescTag, DropTag, ShowTags and ShowCreateTag take
\* the space id from the session when execute() is called, AlterTag takes
\* the one of its plan node; the request and every failure log of the
\* invocation carry that value, whatever the session's space is later.
C17_SpaceIdFixed ==
    \A i \in Cmds :
        pc[i] # "idle" =>
            /\ spaceId[i] = IF node[i].kind = "AlterTag" THEN node[i].space
                            ELSE sessionAt[i]
            /\ SpaceIdUsed(i)

\* C17 witness: the session's space changed after a CreateTag was
\* dispatched; its failure log carries the space of the dispatch.
C17_Witness ==
    \E i \in Cmds :
        /\ Done(i) /\ node[i].kind = "CreateTag" /\ resp[i].tag = "fail"
        /\ sessionSpace # sessionAt[i]
        /\ Len(log[i]) = 1
        /\ log[i][1].space = sessionAt[i]
        /\ req[i].space = sessionAt[i]

\* C18: every step after the resolution of the MetaClient call (the check
\* of the response, the body, finish() and the two handlers) runs on the
\* runner, and what it logs and stores is made of the values captured at
\* dispatch and of the response.
C18_RunsOnRunner ==
    \A i \in Cmds :
        /\ \A j \in 1..Len(events[i]) :
              events[i][j].on =
                 CASE events[i][j].step = "dispatch" -> "caller"
                   [] events[i][j].step = "resolve" -> "meta"
                   [] OTHER -> "runner"
        /\ \A j \in 1..Len(log[i]) :
              log[i][j] = LogRecord(node[i], spaceId[i], resp[i].status)
        /\ result[i].set => result[i] = pending[i]

\* C18 witness: an AlterTag the authority refused went through resume,
\* check, both handlers and completion on the runner, after the session's
\* space had changed.
C18_Witness ==
    \E i \in Cmds :
        /\ Done(i) /\ node[i].kind = "AlterTag" /\ resp[i].tag = "fail"
        /\ Len(events[i]) = 6
        /\ \A j \in 3..6 : events[i][j].on = "runner"
        /\ Len(log[i]) = 1
        /\ sessionSpace # sessionAt[i]

\* C19: the one request of an AlterTag carries the node's list of alter
\* items as it is (same elements, order and repetitions), the node's schema
\* options, its name and its space.
C19_AlterRequestExact ==
    \A i \in Cmds :
        (node[i].kind = "AlterTag" /\ pc[i] \notin {"idle", "raised"}) =>
            /\ req[i].op = "alterTagSchema"
            /\ req[i].items = node[i].items
            /\ req[i].prop = node[i].prop
            /\ req[i].name = node[i].name
            /\ req[i].space = node[i].space
            /\ metaCalls[i] = 1

\* C19 witness: an AlterTag with the items DROP, ADD and a ttl has
\* completed; its request held DROP, ADD.
C19_Witness ==
    \E i \in Cmds :
        /\ Done(i) /\ node[i].kind = "AlterTag"
        /\ node[i].items = <<"DROP", "ADD">>
        /\ node[i].prop.ttl_duration = 100
        /\ req[i].items = <<"DROP", "ADD">>

\* C20: the mutation commands do not read the value of a successful
\* response: DropTag and AlterTag complete with OK when the acknowledgement
\* is false, CreateTag completes with OK for every TagID.
C20_PayloadIgnored ==
    \A i \in Cmds :
        /\ (node[i].kind \in {"DropTag", "AlterTag"} /\ RespOk(resp[i]) /\ ~resp[i].ack) =>
              (Done(i) => future[i] = Val(StatusOK))
        /\ (node[i].kind = "CreateTag" /\ RespOk(resp[i]) /\ resp[i].id \in TagIDs) =>
              (Done(i) => future[i] = Val(StatusOK))

\* C20 witness: a DropTag whose successful response carried false has
\* completed with OK.
C20_Witness ==
    \E i \in Cmds :
        /\ Done(i) /\ node[i].kind = "DropTag"
        /\ RespOk(resp[i]) /\ ~resp[i].ack
        /\ future[i] = Val(StatusOK)
====
